---- MODULE Spec2Model ----
(***************************************************************************)
(* boto3_mocking: the two PatchTarget routers (clients, resources), their  *)
(* dispatch / register_handler / handler_for operations, enter_handlers    *)
(* and engage_patching, modelled from lib/boto3_mocking/__init__.py.       *)
(* unittest.mock.patch.dict and patch.multiple are modelled by what they   *)
(* do: patch.dict copies the WHOLE dict on entry and puts the whole copy   *)
(* back on exit.                                                           *)
(***************************************************************************)
EXTENDS Integers, Sequences, FiniteSets, TLC

\* ------------------------------------------------------------------ bounds
\* handler_for contexts entered in one run.
MaxScopes == 2
\* Services test code adds to allow-lists in one run.
MaxAllowed == 1
\* FirstRegistration objects created in one run (each has its own identity).
MaxRegistrations == 2

Services == {"s3", "dynamodb"}
Handlers == {"h1", "h2"}
KwArgs == {"kwA", "kwB"}
\* The contextlib.ExitStack objects test code owns; 0 stands for `with` blocks.
Stacks == {1}

\* ------------------------------------------------------------- the values
\* The module globals that are PatchTarget instances.
TargetNames == {"clients", "resources"}
\* Names enter_handlers may be given: the routers, and a name that is no
\* module global ("bogus": globals()[...] raises KeyError).  A global that is
\* no router fails at the same place, with AttributeError.
GlobalNames == TargetNames \cup {"bogus"}

\* Absent dict key / None.
None == "None"
NoRecord == [service |-> None, id |-> 0, handler |-> None]
NoError == [type |-> None, arg |-> None]
NoCall == [callee |-> None, service |-> None, kw |-> None]
NoResult == [returned_by |-> NoCall]

\* The exception values.
UnpatchedAccess(service) == [type |-> "UnpatchedAccess", arg |-> service]
AlreadyPatched(service) == [type |-> "AlreadyPatched", arg |-> service]
\* A FirstRegistration object: its argument and its identity.  handler is
\* history, not a field of the object: the handler registered with it.
FirstRegistration(service, id, handler) ==
    [service |-> service, id |-> id, handler |-> handler]

\* The original factories of the boto3 module, and the bound dispatch methods.
RealFactory(name) == "boto3." \o name
DispatchOf(t) == t \o ".dispatch"

VARIABLES
    targets,    \* clients / resources: name, real, services, registrations, allowed
    boto3,      \* the boto3 module attributes patch.multiple touches
    scopes,     \* the active handler_for contexts, in order of entry
    nextId,     \* identities handed out to FirstRegistration objects
    entered,    \* how many handler_for contexts were entered
    starts,     \* how many times patching.start() ran
    strict,     \* history: the active contexts were left last-in-first-out so far
    nested,     \* history: every context ever left was the last one entered
    last        \* the latest operation: its arguments, result, error, calls

vars == <<targets, boto3, scopes, nextId, entered, starts, strict, nested, last>>

\* PatchTarget.__init__
PatchTarget(name) ==
    [name |-> name,
     real |-> RealFactory(name),
     services |-> [s \in Services |-> None],
     registrations |-> [s \in Services |-> NoRecord],
     allowed |-> {}]

Init ==
    /\ targets = [t \in TargetNames |->
                    IF t = "clients" THEN PatchTarget("client")
                                     ELSE PatchTarget("resource")]
    /\ boto3 = [boto3_mocking_patched |-> FALSE,
                client |-> RealFactory("client"),
                resource |-> RealFactory("resource")]
    /\ scopes = <<>>
    /\ nextId = 1
    /\ entered = 0
    /\ starts = 0
    /\ strict = TRUE
    /\ nested = TRUE
    /\ last = [op |-> "init"]

\* ---------------------------------------------------------------- dispatch
\* What a callable returns is opaque: it is determined by the call made.
ReturnValue(call) == [returned_by |-> call]
HandlerCall(handler, kwargs) == [callee |-> handler, service |-> None, kw |-> kwargs]
RealCall(real, service, kwargs) == [callee |-> real, service |-> service, kw |-> kwargs]

\* dispatch with the allow-list consulted before the handlers.
dispatch_allowed_first(self, service, kwargs) ==
    IF service \in self.allowed
    THEN LET c == RealCall(self.real, service, kwargs)
         IN [calls |-> <<c>>, result |-> ReturnValue(c), error |-> NoError]
    ELSE IF self.services[service] # None
    THEN LET c == HandlerCall(self.services[service], kwargs)
         IN [calls |-> <<c>>, result |-> ReturnValue(c), error |-> NoError]
    ELSE [calls |-> <<>>, result |-> NoResult, error |-> UnpatchedAccess(service)]

\* dispatch that falls through to the real factory without the allow-list.
dispatch_pass_through(self, service, kwargs) ==
    IF self.services[service] # None
    THEN LET c == HandlerCall(self.services[service], kwargs)
         IN [calls |-> <<c>>, result |-> ReturnValue(c), error |-> NoError]
    ELSE LET c == RealCall(self.real, service, kwargs)
         IN [calls |-> <<c>>, result |-> ReturnValue(c), error |-> NoError]

\* dispatch that calls the real factory like a handler, without the service.
dispatch_real_without_service(self, service, kwargs) ==
    IF self.services[service] # None
    THEN LET c == HandlerCall(self.services[service], kwargs)
         IN [calls |-> <<c>>, result |-> ReturnValue(c), error |-> NoError]
    ELSE IF service \in self.allowed
    THEN LET c == RealCall(self.real, None, kwargs)
         IN [calls |-> <<c>>, result |-> ReturnValue(c), error |-> NoError]
    ELSE [calls |-> <<>>, result |-> NoResult, error |-> UnpatchedAccess(service)]

\* dispatch that reaches the real factory through the module attribute
\* (`getattr(boto3, self.name)(service, **kwargs)`) instead of self.real.
dispatch_via_module(self, service, kwargs) ==
    IF self.services[service] # None
    THEN LET c == HandlerCall(self.services[service], kwargs)
         IN [calls |-> <<c>>, result |-> ReturnValue(c), error |-> NoError]
    ELSE IF service \in self.allowed
    THEN LET c == RealCall(boto3[self.name], service, kwargs)
         IN [calls |-> <<c>>, result |-> ReturnValue(c), error |-> NoError]
    ELSE [calls |-> <<>>, result |-> NoResult, error |-> UnpatchedAccess(service)]

\* PatchTarget.dispatch on router state self: the calls made, the value
\* returned and the error raised.
dispatch_outcome(self, service, kwargs) ==
    IF self.services[service] # None
    THEN LET c == HandlerCall(self.services[service], kwargs)
         IN [calls |-> <<c>>, result |-> ReturnValue(c), error |-> NoError]
    ELSE IF service \in self.allowed
    THEN LET c == RealCall(self.real, service, kwargs)
         IN [calls |-> <<c>>, result |-> ReturnValue(c), error |-> NoError]
    ELSE [calls |-> <<>>, result |-> NoResult, error |-> UnpatchedAccess(service)]

\* dispatch that uses a handler up (`self.services.pop(service)`).
dispatch_popping(t, service, kwargs) ==
    LET o == dispatch_outcome(targets[t], service, kwargs)
    IN /\ last' = [op |-> "dispatch", target |-> t, service |-> service,
                   kw |-> kwargs, calls |-> o.calls, result |-> o.result,
                   error |-> o.error]
       /\ targets' = [targets EXCEPT ![t].services[service] = None]
       /\ UNCHANGED <<boto3, scopes, nextId, entered, starts, strict, nested>>

dispatch(t, service, kwargs) ==
    LET o == dispatch_outcome(targets[t], service, kwargs)
    IN /\ last' = [op |-> "dispatch", target |-> t, service |-> service,
                   kw |-> kwargs, calls |-> o.calls, result |-> o.result,
                   error |-> o.error]
       /\ UNCHANGED <<targets, boto3, scopes, nextId, entered, starts, strict, nested>>

\* Test code manipulates the allow-list set directly (no dedicated API).
AllowedCount == Cardinality(targets["clients"].allowed)
                + Cardinality(targets["resources"].allowed)

allow(t, service) ==
    /\ service \notin targets[t].allowed
    /\ AllowedCount < MaxAllowed
    /\ targets' = [targets EXCEPT ![t].allowed = @ \cup {service}]
    /\ last' = [op |-> "allow", target |-> t, service |-> service]
    /\ UNCHANGED <<boto3, scopes, nextId, entered, starts, strict, nested>>

\* -------------------------------------------------------- register_handler
\* register_handler raising without a cause (`raise AlreadyPatched(service)`).
register_failure_no_cause(self, service) ==
    [error |-> AlreadyPatched(service), cause |-> NoRecord]

\* The failing branch: the error raised and its __cause__
\* (self.registrations.get(service): None when there is no record).
register_failure(self, service) ==
    [error |-> AlreadyPatched(service), cause |-> self.registrations[service]]

\* register_handler that does not keep the FirstRegistration it caught.
registered_services_only(self, service, handler, ex) ==
    [self EXCEPT !.services[service] = handler]

\* The succeeding branch: the router after the two assignments; ex is the
\* FirstRegistration raised and caught.
registered(self, service, handler, ex) ==
    [self EXCEPT !.services[service] = handler,
                 !.registrations[service] = ex]

\* register_handler on routers sharing one services dict (a class attribute).
register_handler_shared(t, service, handler) ==
    IF targets[t].services[service] # None
    THEN LET f == register_failure(targets[t], service)
         IN /\ last' = [op |-> "register_handler", target |-> t,
                        service |-> service, handler |-> handler,
                        before |-> targets[t].services[service],
                        error |-> f.error, cause |-> f.cause]
            /\ UNCHANGED <<targets, boto3, scopes, nextId, entered, starts, strict, nested>>
    ELSE /\ nextId <= MaxRegistrations
         /\ targets' = [u \in TargetNames |->
                IF u = t
                THEN registered(targets[u], service, handler,
                                FirstRegistration(service, nextId, handler))
                ELSE [targets[u] EXCEPT !.services[service] = handler]]
         /\ nextId' = nextId + 1
         /\ last' = [op |-> "register_handler", target |-> t,
                     service |-> service, handler |-> handler,
                     before |-> targets[t].services[service],
                     error |-> NoError, cause |-> NoRecord]
         /\ UNCHANGED <<boto3, scopes, entered, starts, strict, nested>>

\* register_handler that assigns before it looks for an earlier entry.
register_handler_overwriting(t, service, handler) ==
    IF targets[t].services[service] # None
    THEN LET f == register_failure(targets[t], service)
         IN /\ last' = [op |-> "register_handler", target |-> t,
                        service |-> service, handler |-> handler,
                        before |-> targets[t].services[service],
                        error |-> f.error, cause |-> f.cause]
            /\ targets' = [targets EXCEPT ![t].services[service] = handler]
            /\ UNCHANGED <<boto3, scopes, nextId, entered, starts, strict, nested>>
    ELSE /\ nextId <= MaxRegistrations
         /\ targets' = [targets EXCEPT ![t] =
                registered(@, service, handler,
                           FirstRegistration(service, nextId, handler))]
         /\ nextId' = nextId + 1
         /\ last' = [op |-> "register_handler", target |-> t,
                     service |-> service, handler |-> handler,
                     before |-> targets[t].services[service],
                     error |-> NoError, cause |-> NoRecord]
         /\ UNCHANGED <<boto3, scopes, entered, starts, strict, nested>>

register_handler(t, service, handler) ==
    IF targets[t].services[service] # None
    THEN LET f == register_failure(targets[t], service)
         IN /\ last' = [op |-> "register_handler", target |-> t,
                        service |-> service, handler |-> handler,
                        before |-> targets[t].services[service],
                        error |-> f.error, cause |-> f.cause]
            /\ UNCHANGED <<targets, boto3, scopes, nextId, entered, starts, strict, nested>>
    ELSE /\ nextId <= MaxRegistrations
         /\ targets' = [targets EXCEPT ![t] =
                registered(@, service, handler,
                           FirstRegistration(service, nextId, handler))]
         /\ nextId' = nextId + 1
         /\ last' = [op |-> "register_handler", target |-> t,
                     service |-> service, handler |-> handler,
                     before |-> targets[t].services[service],
                     error |-> NoError, cause |-> NoRecord]
         /\ UNCHANGED <<boto3, scopes, entered, starts, strict, nested>>

\* -------------------------------------------------------------- handler_for
\* patch.dict taking its copy after the update.
patch_dict_copy_after(in_dict, service, handler) ==
    [original |-> [in_dict EXCEPT ![service] = handler],
     patched |-> [in_dict EXCEPT ![service] = handler]]

\* patch.dict that only fills in a missing key (dict.setdefault).
patch_dict_setdefault(in_dict, service, handler) ==
    [original |-> in_dict,
     patched |-> IF in_dict[service] = None
                 THEN [in_dict EXCEPT ![service] = handler]
                 ELSE in_dict]

\* patch.dict(in_dict, values)._patch_dict: copy all of in_dict, then update.
patch_dict(in_dict, service, handler) ==
    [original |-> in_dict, patched |-> [in_dict EXCEPT ![service] = handler]]

\* _unpatch_dict that clears in_dict and does not put the copy back.
unpatch_dict_clear_only(in_dict, original) == [s \in DOMAIN in_dict |-> None]

\* patch.dict._unpatch_dict: clear in_dict, then update it from the copy.
unpatch_dict(in_dict, original) == original

\* Entering `handler_for(service, handler)` of router t; owner is 0 for a
\* `with` statement and k for a context handed to ExitStack k.  prior is
\* history: what services[service] was at entry.
Entered(tg, scs, t, service, handler, owner) ==
    LET p == patch_dict(tg[t].services, service, handler)
    IN [targets |-> [tg EXCEPT ![t].services = p.patched],
        scopes |-> Append(scs, [target |-> t, service |-> service,
                                handler |-> handler, original |-> p.original,
                                owner |-> owner,
                                prior |-> tg[t].services[service]])]

\* Leaving the contexts scs (first of the sequence first): the routers after,
\* and for each exit what services[service] was right after it.
RECURSIVE Unwind(_, _)
Unwind(scs, tg) ==
    IF scs = <<>> THEN [targets |-> tg, exits |-> <<>>]
    ELSE LET sc == Head(scs)
             tg1 == [tg EXCEPT ![sc.target].services = unpatch_dict(@, sc.original)]
             rest == Unwind(Tail(scs), tg1)
         IN [targets |-> rest.targets,
             exits |-> <<[scope |-> sc,
                          after |-> tg1[sc.target].services[sc.service]]>>
                       \o rest.exits]

RECURSIVE Reverse(_)
Reverse(seq) == IF seq = <<>> THEN <<>> ELSE Append(Reverse(Tail(seq)), Head(seq))

Positions(owner) == {i \in 1..Len(scopes) : scopes[i].owner = owner}
Keep(gone) == SelectSeq([i \in 1..Len(scopes) |-> <<i, scopes[i]>>],
                        LAMBDA p : p[1] \notin gone)
Remaining(gone) == [i \in 1..Len(Keep(gone)) |-> Keep(gone)[i][2]]

\* history: the contexts at positions gone were the last entered ones
StrictAfter(gone) ==
    LET left == (1..Len(scopes)) \ gone
    IN IF left = {} THEN TRUE
       ELSE strict /\ \A i \in gone, j \in left : i > j

\* history: the contexts at positions gone are the innermost ones
NestedAfter(gone) ==
    nested /\ \A i \in gone, j \in (1..Len(scopes)) \ gone : i > j

Max(S) == CHOOSE x \in S : \A y \in S : y <= x

handler_for_enter(t, service, handler) ==
    /\ entered < MaxScopes
    /\ LET e == Entered(targets, scopes, t, service, handler, 0)
       IN /\ targets' = e.targets
          /\ scopes' = e.scopes
    /\ entered' = entered + 1
    /\ last' = [op |-> "handler_for_enter", target |-> t, service |-> service,
                handler |-> handler, error |-> NoError]
    /\ UNCHANGED <<boto3, nextId, starts, strict, nested>>

\* The innermost `with handler_for(...)` block ends: its body returned
\* (how = "return") or raised (how = "raise"); patch.dict.__exit__ runs alike.
handler_for_exit(how) ==
    /\ Positions(0) # {}
    /\ LET i == Max(Positions(0))
           u == Unwind(<<scopes[i]>>, targets)
       IN /\ targets' = u.targets
          /\ scopes' = Remaining({i})
          /\ strict' = StrictAfter({i})
          /\ nested' = NestedAfter({i})
          /\ last' = [op |-> "handler_for_exit", how |-> how, exits |-> u.exits]
    /\ UNCHANGED <<boto3, nextId, entered, starts>>

\* ExitStack k is exited: its contexts are left last entered first.
stack_exit(k, how) ==
    /\ Positions(k) # {}
    /\ LET mine == SelectSeq(scopes, LAMBDA sc : sc.owner = k)
           u == Unwind(Reverse(mine), targets)
       IN /\ targets' = u.targets
          /\ scopes' = Remaining(Positions(k))
          /\ strict' = StrictAfter(Positions(k))
          /\ nested' = NestedAfter(Positions(k))
          /\ last' = [op |-> "stack_exit", stack |-> k, how |-> how,
                      exits |-> u.exits]
    /\ UNCHANGED <<boto3, nextId, entered, starts>>

\* ------------------------------------------------------------ enter_handlers
\* globals()[target_name].handler_for: the error of the lookup, if any.
lookup_error(target_name) ==
    IF target_name \in TargetNames THEN NoError
    ELSE [type |-> "KeyError", arg |-> target_name]

\* enter_handlers that resolves every name before it enters any context.
RECURSIVE enter_loop_resolving_first(_, _, _, _, _)
enter_loop_resolving_first(kwargs, service, stack, tg, scs) ==
    LET bad == {i \in 1..Len(kwargs) : lookup_error(kwargs[i].name) # NoError}
    IN IF bad # {}
       THEN [targets |-> tg, scopes |-> scs,
             error |-> lookup_error(kwargs[CHOOSE i \in bad : \A j \in bad : i <= j].name)]
       ELSE IF kwargs = <<>> THEN [targets |-> tg, scopes |-> scs, error |-> NoError]
       ELSE LET kv == Head(kwargs)
                e == Entered(tg, scs, kv.name, service, kv.handler, stack)
            IN enter_loop_resolving_first(Tail(kwargs), service, stack,
                                          e.targets, e.scopes)

\* The loop of enter_handlers over kwargs.items(), in order.
RECURSIVE enter_loop(_, _, _, _, _)
enter_loop(kwargs, service, stack, tg, scs) ==
    IF kwargs = <<>> THEN [targets |-> tg, scopes |-> scs, error |-> NoError]
    ELSE LET kv == Head(kwargs)
         IN IF lookup_error(kv.name) # NoError
            THEN [targets |-> tg, scopes |-> scs, error |-> lookup_error(kv.name)]
            ELSE LET e == Entered(tg, scs, kv.name, service, kv.handler, stack)
                 IN enter_loop(Tail(kwargs), service, stack, e.targets, e.scopes)

\* Keyword arguments: one or two (target_name, handler) pairs, names distinct;
\* a name that does not resolve comes last or alone.
Pairs == [name : GlobalNames, handler : Handlers]
KwargsLists == {<<p>> : p \in Pairs}
               \cup {pq \in Pairs \X Pairs : /\ pq[1].name # pq[2].name
                                              /\ pq[1].name \in TargetNames}

enter_handlers(stack, service, kwargs) ==
    LET r == enter_loop(kwargs, service, stack, targets, scopes)
    IN /\ entered + Len(r.scopes) - Len(scopes) <= MaxScopes
       /\ targets' = r.targets
       /\ scopes' = r.scopes
       /\ entered' = entered + Len(r.scopes) - Len(scopes)
       /\ last' = [op |-> "enter_handlers", stack |-> stack, service |-> service,
                   kwargs |-> kwargs, error |-> r.error]
       /\ UNCHANGED <<boto3, nextId, starts, strict, nested>>

\* ----------------------------------------------------------- engage_patching
patching_engaged == boto3.boto3_mocking_patched

\* patch.multiple with the two dispatch methods swapped.
patching_start_crossed(module) ==
    [module EXCEPT !.boto3_mocking_patched = TRUE,
                   !.client = DispatchOf("resources"),
                   !.resource = DispatchOf("clients")]

\* patching.start(): patch.multiple sets the three attributes of boto3.
patching_start(module) ==
    [module EXCEPT !.boto3_mocking_patched = TRUE,
                   !.client = DispatchOf("clients"),
                   !.resource = DispatchOf("resources")]

\* engage_patching without its guard.
must_start_always(engaged) == TRUE

\* The guard of engage_patching.
must_start(engaged) == ~engaged

engage_patching ==
    /\ IF must_start(patching_engaged)
       THEN /\ boto3' = patching_start(boto3)
            /\ starts' = starts + 1
       ELSE UNCHANGED <<boto3, starts>>
    /\ last' = [op |-> "engage_patching", error |-> NoError,
                was_engaged |-> patching_engaged]
    /\ UNCHANGED <<targets, scopes, nextId, entered, strict, nested>>

\* Application code calls boto3.client(service, **kwargs) or boto3.resource(...)
\* through whatever the module attribute currently is.
boto3_call(name, service, kwargs) ==
    LET entry == boto3[name]
        o == IF \E t \in TargetNames : entry = DispatchOf(t)
             THEN dispatch_outcome(
                      targets[CHOOSE t \in TargetNames : entry = DispatchOf(t)],
                      service, kwargs)
             ELSE LET c == RealCall(entry, service, kwargs)
                  IN [calls |-> <<c>>, result |-> ReturnValue(c), error |-> NoError]
    IN /\ last' = [op |-> "boto3_call", name |-> name, entry |-> entry,
                   service |-> service, kw |-> kwargs, calls |-> o.calls,
                   result |-> o.result, error |-> o.error]
       /\ UNCHANGED <<targets, boto3, scopes, nextId, entered, starts, strict, nested>>

\* One router under test, both services: every operation of PatchTarget on
\* `clients`, contexts held by `with` blocks and by an ExitStack.
RouterKwargs == {<<[name |-> "clients", handler |-> h]>> : h \in Handlers}

NextRouter ==
    \/ \E s \in Services, kw \in KwArgs : dispatch("clients", s, kw)
    \/ \E s \in Services : allow("clients", s)
    \/ \E s \in Services, h \in Handlers : register_handler("clients", s, h)
    \/ \E s \in Services, h \in Handlers : handler_for_enter("clients", s, h)
    \/ \E how \in {"return", "raise"} : handler_for_exit(how)
    \/ \E k \in Stacks, how \in {"return", "raise"} : stack_exit(k, how)
    \/ \E k \in Stacks, s \in Services, kw \in RouterKwargs :
            enter_handlers(k, s, kw)

SpecRouter == Init /\ [][NextRouter]_vars

\* Both routers, one service: the module-level operations.
Next ==
    \/ \E t \in TargetNames, kw \in KwArgs : dispatch(t, "s3", kw)
    \/ \E n \in {"client", "resource"}, kw \in KwArgs : boto3_call(n, "s3", kw)
    \/ \E t \in TargetNames : allow(t, "s3")
    \/ \E t \in TargetNames, h \in Handlers : register_handler(t, "s3", h)
    \/ \E t \in TargetNames, h \in Handlers : handler_for_enter(t, "s3", h)
    \/ \E how \in {"return", "raise"} : handler_for_exit(how)
    \/ \E k \in Stacks, how \in {"return", "raise"} : stack_exit(k, how)
    \/ \E k \in Stacks, kw \in KwargsLists : enter_handlers(k, "s3", kw)
    \/ engage_patching

Spec == Init /\ [][Next]_vars

\* ================================================================= claims
\* The router and the service the latest dispatch was made on.
DispatchedOn == targets[last.target]
Dispatched == last.op = "dispatch"

\* C1: whenever the dispatched service has an entry in services, allow-listed
\* or not, dispatch calls exactly that handler with the keyword arguments,
\* returns what it returned, raises nothing and never calls the real factory.
C1_HandlerTakesPrecedence ==
    (Dispatched /\ DispatchedOn.services[last.service] # None)
    => LET h == DispatchedOn.services[last.service]
       IN /\ last.calls = <<HandlerCall(h, last.kw)>>
          /\ last.result = ReturnValue(HandlerCall(h, last.kw))
          /\ last.error = NoError
          /\ \A i \in 1..Len(last.calls) : last.calls[i].callee # DispatchedOn.real

\* A dispatch to a service that has a handler and is allow-listed as well.
C1_Witness ==
    /\ Dispatched
    /\ DispatchedOn.services[last.service] = "h2"
    /\ last.service \in DispatchedOn.allowed
    /\ last.result = ReturnValue(HandlerCall("h2", last.kw))

\* C2: a dispatch to a service with no entry in services and not in allowed
\* raises UnpatchedAccess(service), returns nothing and calls neither a
\* handler nor the real factory.
C2_UnpatchedAccessRaised ==
    (/\ Dispatched
     /\ DispatchedOn.services[last.service] = None
     /\ last.service \notin DispatchedOn.allowed)
    => /\ last.error = UnpatchedAccess(last.service)
       /\ last.calls = <<>>
       /\ last.result = NoResult

\* A failing dispatch on a router that has a handler for, and allows, only
\* the other service.
C2_Witness ==
    /\ Dispatched
    /\ last.error = UnpatchedAccess("s3")
    /\ DispatchedOn.services["dynamodb"] # None
    /\ DispatchedOn.allowed = {"dynamodb"}

\* C3: a dispatch to an allow-listed service with no entry in services calls
\* the stored real factory exactly once, with the service and the keyword
\* arguments, and returns what it returned.
C3_AllowedReachesReal ==
    (/\ Dispatched
     /\ DispatchedOn.services[last.service] = None
     /\ last.service \in DispatchedOn.allowed)
    => LET c == RealCall(DispatchedOn.real, last.service, last.kw)
       IN /\ last.calls = <<c>>
          /\ Len(last.calls) = 1
          /\ last.result = ReturnValue(c)
          /\ last.error = NoError

\* An allow-listed dispatch that reached boto3.client while the other service
\* had a handler.
C3_Witness ==
    /\ Dispatched
    /\ last.service = "s3" /\ last.kw = "kwB"
    /\ last.calls = <<RealCall(RealFactory("client"), "s3", "kwB")>>
    /\ DispatchedOn.services["dynamodb"] # None

\* The contexts the latest operation left.
Exited == last.op \in {"handler_for_exit", "stack_exit"}

\* C4: when a handler_for context is left, by return or by an error raised in
\* its body, services[service] is again what it was right before that
\* context was entered (the earlier handler, or no entry), so a dispatch of
\* the service is routed as the entry-time dict would route it.
C4_ExitRestoresPrior ==
    Exited
    => /\ \A i \in 1..Len(last.exits) :
            last.exits[i].after = last.exits[i].scope.prior
       /\ LET e == last.exits[Len(last.exits)]
              now == targets[e.scope.target]
          IN \A kw \in KwArgs :
                dispatch_outcome(now, e.scope.service, kw)
                = dispatch_outcome(
                      [now EXCEPT !.services[e.scope.service] = e.scope.prior],
                      e.scope.service, kw)

\* A `with` block over a registered handler left by an error: the registered
\* handler is back.
C4_Witness ==
    /\ last.op = "handler_for_exit"
    /\ last.how = "raise"
    /\ last.exits[1].scope.prior = "h1"
    /\ last.exits[1].scope.handler = "h2"
    /\ targets[last.exits[1].scope.target].services[last.exits[1].scope.service] = "h1"

\* The latest operation was register_handler on a service that had an entry.
RegisteredOverEntry == last.op = "register_handler" /\ last.before # None

\* C5 as stated: register_handler on a service that has an entry in services,
\* however it got there, raises AlreadyPatched(service) whose cause is the
\* FirstRegistration record stored for the service, and the cause is never
\* absent.
C5_CauseNeverAbsent ==
    RegisteredOverEntry
    => /\ last.error = AlreadyPatched(last.service)
       /\ last.cause # NoRecord
       /\ last.cause = targets[last.target].registrations[last.service]
       /\ last.cause.service = last.service

\* C5 as amended: register_handler on a service that has an entry raises
\* AlreadyPatched(service) and changes nothing; the cause is whatever
\* registrations holds for the service: the FirstRegistration(service) record
\* when the service was registered before, and None when it never was (its
\* entry was put there by handler_for alone).
C5_CauseIsStoredRecord ==
    RegisteredOverEntry
    => /\ last.error = AlreadyPatched(last.service)
       /\ last.cause = targets[last.target].registrations[last.service]
       /\ last.cause # NoRecord => last.cause.service = last.service
       /\ targets[last.target].services[last.service] = last.before

\* A second registration that failed with the first registration as cause.
C5_Witness ==
    /\ RegisteredOverEntry
    /\ last.error = AlreadyPatched("s3")
    /\ last.cause = FirstRegistration("s3", 1, "h1")
    /\ last.handler = "h2"

\* C6: once register_handler(s, h) succeeded, services[s] = h in every later
\* state in which no handler_for context for s is active on that router.
C6_RegistrationHolds ==
    \A t \in TargetNames, s \in Services :
        LET r == targets[t].registrations[s]
        IN (/\ r # NoRecord
            /\ ~\E i \in 1..Len(scopes) :
                    scopes[i].target = t /\ scopes[i].service = s)
           => targets[t].services[s] = r.handler

\* The innermost active context for service s of router t.
ActiveOn(t, s) ==
    {i \in 1..Len(scopes) : scopes[i].target = t /\ scopes[i].service = s}

\* C7: while contexts are left in reverse order of entry, the handler of the
\* innermost active context for a service is the one in effect (h2 while h1
\* and h2 are active, h1 once h2 was left), and each exit uncovers what was
\* in effect right before the matching entry.
C7_OverridesStack ==
    strict
    => /\ \A t \in TargetNames, s \in Services :
            ActiveOn(t, s) # {}
            => targets[t].services[s] = scopes[Max(ActiveOn(t, s))].handler
       /\ Exited => \A i \in 1..Len(last.exits) :
                        last.exits[i].after = last.exits[i].scope.prior

\* The inner of two nested overrides of one service was left: the outer
\* override's handler is in effect again, over a registered handler.
C7_Witness ==
    /\ strict
    /\ last.op = "handler_for_exit"
    /\ Len(scopes) = 1
    /\ last.exits[1].scope.target = scopes[1].target
    /\ last.exits[1].scope.service = scopes[1].service
    /\ last.exits[1].scope.handler = "h2"
    /\ scopes[1].handler = "h1"
    /\ scopes[1].prior = "h2"
    /\ targets[scopes[1].target].services[scopes[1].service] = "h1"

\* C8: engage_patching called while patching is engaged raises nothing,
\* leaves the activation boolean true, does not run patching.start() again
\* and leaves the whole state as the first call left it.
C8_EngageIdempotent ==
    [][(last'.op = "engage_patching" /\ patching_engaged)
       => /\ last'.error = NoError
          /\ boto3' = boto3
          /\ boto3'.boto3_mocking_patched
          /\ starts' = starts
          /\ starts' = 1
          /\ <<targets, scopes, nextId, entered, strict, nested>>'
             = <<targets, scopes, nextId, entered, strict, nested>>]_vars

\* engage_patching was called again after patching was engaged.
C8_Witness ==
    /\ last.op = "engage_patching"
    /\ last.was_engaged
    /\ patching_engaged
    /\ starts = 1

\* C9: the activation boolean is false and the factories are the originals
\* until engage_patching is first called; from then on, whatever is called,
\* patching_engaged() is true, boto3.client is clients.dispatch and
\* boto3.resource is resources.dispatch.
C9_RedirectionStays ==
    /\ starts = 0 => /\ ~patching_engaged
                     /\ boto3.client = RealFactory("client")
                     /\ boto3.resource = RealFactory("resource")
    /\ starts > 0 => /\ patching_engaged
                     /\ boto3.client = DispatchOf("clients")
                     /\ boto3.resource = DispatchOf("resources")
    /\ (last.op = "engage_patching") => starts > 0
    /\ (last.op = "boto3_call" /\ starts > 0)
       => LET router == IF last.name = "client" THEN "clients" ELSE "resources"
              o == dispatch_outcome(targets[router], last.service, last.kw)
          IN /\ last.entry = DispatchOf(router)
             /\ last.calls = o.calls
             /\ last.result = o.result
             /\ last.error = o.error

\* Patching engaged, then handlers registered and overridden on the resource
\* router only: boto3.resource(...) reaches the resource router's handler.
C9_Witness ==
    /\ last.op = "boto3_call"
    /\ last.name = "resource"
    /\ last.entry = DispatchOf("resources")
    /\ patching_engaged
    /\ last.calls = <<HandlerCall("h2", last.kw)>>
    /\ targets["clients"].services["s3"] = None
    /\ scopes # <<>>

\* The pairs enter_handlers was given before the first name that does not
\* resolve (all of them when every name resolves).
ResolvedPrefix(kwargs) ==
    LET bad == {i \in 1..Len(kwargs) : kwargs[i].name \notin TargetNames}
    IN IF bad = {} THEN Len(kwargs)
       ELSE (CHOOSE i \in bad : \A j \in bad : i <= j) - 1

C11_RegistrationsAppendOnly ==
    [][\A t \in TargetNames, s \in Services :
          targets[t].registrations[s] # NoRecord
          => targets'[t].registrations[s] = targets[t].registrations[s]]_vars

C13_DispatchChangesNothing ==
    [][(last'.op \in {"dispatch", "boto3_call"})
       => /\ \A t \in TargetNames :
                /\ targets'[t].name = targets[t].name
                /\ targets'[t].real = targets[t].real
                /\ targets'[t].services = targets[t].services
                /\ targets'[t].registrations = targets[t].registrations
                /\ targets'[t].allowed = targets[t].allowed
          /\ boto3' = boto3
          /\ patching_engaged' = patching_engaged
          /\ scopes' = scopes]_vars

\* A dispatch on the client router called the handler of an active override
\* while patching was engaged; the override is still in effect.
C13_Witness ==
    /\ Dispatched
    /\ last.target = "clients"
    /\ last.calls = <<HandlerCall("h1", last.kw)>>
    /\ patching_engaged
    /\ scopes # <<>>
    /\ targets["clients"].services["s3"] = "h1"

\* The routers the latest exit left contexts of.
ExitedTargets == {last.exits[i].scope.target : i \in 1..Len(last.exits)}

\* C14: register_handler, handler_for entry, a dispatch and the exit of
\* contexts of one router leave services, registrations and allowed of the
\* other router as they were, and whether a dispatch on the other router
\* succeeds is not changed by a registration: without an entry and an
\* allow-list membership of its own it still raises UnpatchedAccess.
C14_RoutersIndependent ==
    [][/\ (last'.op \in {"register_handler", "handler_for_enter", "dispatch"})
          => \A u \in TargetNames \ {last'.target} :
                 /\ targets'[u].services = targets[u].services
                 /\ targets'[u].registrations = targets[u].registrations
                 /\ targets'[u].allowed = targets[u].allowed
                 /\ \A kw \in KwArgs :
                        dispatch_outcome(targets'[u], last'.service, kw)
                        = dispatch_outcome(targets[u], last'.service, kw)
       /\ (last'.op \in {"handler_for_exit", "stack_exit"})
          => \A u \in TargetNames \ ExitedTargets' :
                 /\ targets'[u].services = targets[u].services
                 /\ targets'[u].registrations = targets[u].registrations
                 /\ targets'[u].allowed = targets[u].allowed
       /\ (/\ last'.op = "dispatch"
           /\ targets[last'.target].services[last'.service] = None
           /\ last'.service \notin targets[last'.target].allowed)
          => last'.error = UnpatchedAccess(last'.service)]_vars

\* "s3" is registered on the client router only: a dispatch of "s3" on the
\* resource router raised UnpatchedAccess.
C14_Witness ==
    /\ Dispatched
    /\ last.target = "resources"
    /\ last.error = UnpatchedAccess("s3")
    /\ targets["clients"].registrations["s3"] # NoRecord
    /\ targets["clients"].services["s3"] # None
    /\ targets["resources"].registrations["s3"] = NoRecord

\* C15 as stated: when an ExitStack is exited, by return or by an error, the
\* overrides enter_handlers put on it are left in reverse order of entry, none
\* of them stays active, and services[s] of each named router is then what it
\* was before the enter_handlers call that overrode s on that router (the
\* first such call, when the stack holds several overrides of s there).
C15_StackExitRestores ==
    [][(last'.op = "stack_exit")
       => LET mine == SelectSeq(scopes, LAMBDA sc : sc.owner = last'.stack)
              n == Len(mine)
          IN /\ Len(last'.exits) = n
             /\ \A i \in 1..n : last'.exits[i].scope = mine[n + 1 - i]
             /\ \A j \in 1..Len(scopes') : scopes'[j].owner # last'.stack
             /\ \A i \in 1..n :
                    (\A j \in 1..(i - 1) :
                         \/ mine[j].target # mine[i].target
                         \/ mine[j].service # mine[i].service)
                    => targets'[mine[i].target].services[mine[i].service]
                       = mine[i].prior]_vars

\* C16: a register_handler(s, h2) that finds an entry for s raises
\* AlreadyPatched(s) and changes nothing: services, registrations and allowed
\* of every router and the active contexts are as before, services[s] is the
\* earlier handler and a dispatch of s still calls it.
C16_FailedRegistrationChangesNothing ==
    [][(last'.op = "register_handler" /\ last'.error # NoError)
       => LET t == last'.target
              s == last'.service
          IN /\ last'.error = AlreadyPatched(s)
             /\ last'.before # None
             /\ targets' = targets
             /\ scopes' = scopes
             /\ targets'[t].services[s] = last'.before
             /\ targets'[t].registrations = targets[t].registrations
             /\ \A kw \in KwArgs :
                    dispatch_outcome(targets'[t], s, kw).calls
                    = <<HandlerCall(last'.before, kw)>>]_vars

\* register_handler("dynamodb", "h2") failed on a router where "h1" is
\* registered for "dynamodb": "h1" and its record are still there.
C16_Witness ==
    /\ last.op = "register_handler"
    /\ last.error = AlreadyPatched("dynamodb")
    /\ last.handler = "h2"
    /\ last.before = "h1"
    /\ targets[last.target].services["dynamodb"] = "h1"
    /\ targets[last.target].registrations["dynamodb"].handler = "h1"
    /\ scopes = <<>>

\* C17: whenever no context is active and every context left so far was the
\* last one entered at that time, each service with an entry in services has
\* a record in registrations; and right after a successful
\* register_handler(s, h) services[s] is h and registrations[s] is the
\* FirstRegistration(s) made by that very call.
C17_ServicesHaveRecords ==
    /\ (nested /\ scopes = <<>>)
       => \A t \in TargetNames, s \in Services :
              targets[t].services[s] # None
              => /\ targets[t].registrations[s] # NoRecord
                 /\ targets[t].registrations[s].service = s
    /\ (last.op = "register_handler" /\ last.error = NoError)
       => /\ last.before = None
          /\ targets[last.target].services[last.service] = last.handler
          /\ targets[last.target].registrations[last.service]
             = FirstRegistration(last.service, nextId - 1, last.handler)

\* Two nested contexts were entered and left in order around a registration
\* made before them: no context is active and the registered entry has its
\* record.
C17_Witness ==
    /\ nested
    /\ scopes = <<>>
    /\ entered = MaxScopes
    /\ Exited
    /\ targets["clients"].services["s3"] = "h1"
    /\ targets["clients"].registrations["s3"].handler = "h1"
    /\ targets["clients"].services["dynamodb"] = None

\* The router behind a boto3 factory name.
RouterOf(name) == IF name = "client" THEN "clients" ELSE "resources"

\* C18: real of each router is the boto3 factory of its name as it was at
\* construction, in every state; and with patching engaged a call of
\* boto3.client or boto3.resource for an allow-listed service without a
\* handler enters that router's dispatch and makes exactly one call, of the
\* original factory with the service and the keyword arguments, and none of
\* a router's dispatch.
C18_RealIsOriginalFactory ==
    /\ targets["clients"].real = RealFactory("client")
    /\ targets["resources"].real = RealFactory("resource")
    /\ \A t \in TargetNames, u \in TargetNames : targets[t].real # DispatchOf(u)
    /\ (/\ last.op = "boto3_call"
        /\ patching_engaged
        /\ targets[RouterOf(last.name)].services[last.service] = None
        /\ last.service \in targets[RouterOf(last.name)].allowed)
       => /\ last.entry = DispatchOf(RouterOf(last.name))
          /\ Len(last.calls) = 1
          /\ last.calls[1] = RealCall(RealFactory(last.name), last.service, last.kw)
          /\ \A t \in TargetNames : last.calls[1].callee # DispatchOf(t)
          /\ last.result = ReturnValue(last.calls[1])
          /\ last.error = NoError

\* With patching engaged, boto3.client("s3", ...) for the allow-listed "s3"
\* went through the client router to the original boto3.client.
C18_Witness ==
    /\ last.op = "boto3_call"
    /\ last.name = "client"
    /\ patching_engaged
    /\ boto3.client = DispatchOf("clients")
    /\ "s3" \in targets["clients"].allowed
    /\ targets["clients"].services["s3"] = None
    /\ last.calls = <<RealCall("boto3.client", "s3", last.kw)>>
====
